---- MODULE Spec2Model ----
\* Atomic float64 accumulators of karrick/go-atomic-float: the two bitwise
\* (compare-and-swap) variants atomicFloatCAS and atomicFloatCAS2 and the
\* sync.RWMutex variant atomicFloatMutex, driven by the runQ harness and by
\* small concurrent callers.
EXTENDS Integers, Sequences, FiniteSets, TLC

----------------------------------------------------------------------------
\* float64, scaled down.  A value is a sign bit, a biased exponent of ExpBits
\* bits and a fraction of ManBits bits, with IEEE-754 semantics: signed zeros,
\* subnormals, infinities, NaNs, round-to-nearest-even.  (float64 itself is
\* ExpBits = 11, ManBits = 52.)

ExpBits == 3
ManBits == 3

RECURSIVE Exp2(_)
Exp2(n) == IF n <= 0 THEN 1 ELSE 2 * Exp2(n - 1)
Pow2Table == [n \in 0..(Exp2(ExpBits) + ManBits + 4) |-> Exp2(n)]
Pow2(n) == Pow2Table[n]

ExpMax == Pow2(ExpBits) - 1
Bias == Pow2(ExpBits - 1) - 1
ManMax == Pow2(ManBits) - 1

Float64 == [sign : 0..1, exp : 0..ExpMax, man : 0..ManMax]
Uint64 == 0..(Pow2(1 + ExpBits + ManBits) - 1)

\* A numeric conversion in place of the reinterpretation: the sign is lost.
Float64bitsUnsigned(f) == f.exp * Pow2(ManBits) + f.man

\* math.Float64bits: the bit pattern of a float64 as an unsigned integer.
Float64bits(f) == f.sign * Pow2(ExpBits + ManBits) + f.exp * Pow2(ManBits) + f.man

\* math.Float64frombits: the float64 whose bit pattern is b.
Float64frombits(b) ==
    [sign |-> b \div Pow2(ExpBits + ManBits),
     exp |-> (b \div Pow2(ManBits)) % Pow2(ExpBits),
     man |-> b % Pow2(ManBits)]

IsNaN(f) == f.exp = ExpMax /\ f.man # 0
IsInf(f) == f.exp = ExpMax /\ f.man = 0
IsZero(f) == f.exp = 0 /\ f.man = 0

Inf(s) == [sign |-> s, exp |-> ExpMax, man |-> 0]
FZero(s) == [sign |-> s, exp |-> 0, man |-> 0]
\* The quiet NaN an invalid operation (+Inf + -Inf) produces.
DefaultNaN == [sign |-> 0, exp |-> ExpMax, man |-> Pow2(ManBits - 1)]
\* A NaN operand comes out of an operation with its quiet bit set.
Quiet(f) == [f EXCEPT !.man = IF f.man < Pow2(ManBits - 1) THEN f.man + Pow2(ManBits - 1) ELSE f.man]

\* The magnitude of a finite value, in units of the smallest subnormal.
Mag(f) == IF f.exp = 0 THEN f.man ELSE (Pow2(ManBits) + f.man) * Pow2(f.exp - 1)
Val(f) == IF f.sign = 1 THEN 0 - Mag(f) ELSE Mag(f)

\* The exponent field of the normal number whose magnitude n > 0 (in units of
\* the smallest subnormal) lies in: 1 for a subnormal, ExpMax + 1 past the range.
Exponent == [n \in Nat |-> CHOOSE k \in 1..(ExpMax + 1) :
                               /\ n < Pow2(ManBits + k)
                               /\ (k = 1 \/ n >= Pow2(ManBits + k - 1))]

\* The float nearest to magnitude n > 0 with sign s: round to nearest, ties to
\* even, overflow to infinity.
RoundMag ==
    [s \in 0..1, n \in Nat |->
        LET e == Exponent[n]
            sh == e - 1
            q == n \div Pow2(sh)
            r == n % Pow2(sh)
            up == sh > 0 /\ (2 * r > Pow2(sh) \/ (2 * r = Pow2(sh) /\ q % 2 = 1))
            q1 == IF up THEN q + 1 ELSE q
            e2 == IF q1 = Pow2(ManBits + 1) THEN e + 1 ELSE e
            q2 == IF q1 = Pow2(ManBits + 1) THEN Pow2(ManBits) ELSE q1
        IN  IF e2 >= ExpMax THEN Inf(s)
            ELSE IF q2 < Pow2(ManBits) THEN [sign |-> s, exp |-> 0, man |-> q2]
            ELSE [sign |-> s, exp |-> e2, man |-> q2 - Pow2(ManBits)]]

\* The float nearest to the integer v # 0 (in units of the smallest subnormal).
Round == [v \in Int |-> IF v < 0 THEN RoundMag[1, 0 - v] ELSE RoundMag[0, v]]

\* x + y on float64.
FAdd ==
    [x \in Float64, y \in Float64 |->
        IF IsNaN(x) THEN Quiet(x)
        ELSE IF IsNaN(y) THEN Quiet(y)
        ELSE IF IsInf(x) /\ IsInf(y) THEN (IF x.sign = y.sign THEN x ELSE DefaultNaN)
        ELSE IF IsInf(x) THEN x
        ELSE IF IsInf(y) THEN y
        ELSE IF Val(x) + Val(y) = 0 THEN FZero(IF x.sign = 1 /\ y.sign = 1 THEN 1 ELSE 0)
        ELSE Round[Val(x) + Val(y)]]

\* x == y on float64: NaN equals nothing, the two zeros are equal.
FEq(x, y) == /\ ~IsNaN(x) /\ ~IsNaN(y)
             /\ (x = y \/ (IsZero(x) /\ IsZero(y)))

\* x <= y on float64: false with a NaN, the two zeros are equal.  (Bit
\* patterns of one sign are ordered as their magnitudes are.)
Ord(f) == IF f.sign = 1 THEN 0 - (f.exp * Pow2(ManBits) + f.man)
          ELSE f.exp * Pow2(ManBits) + f.man
FLe(x, y) == ~IsNaN(x) /\ ~IsNaN(y) /\ Ord(x) <= Ord(y)

\* float64(k) for an int k.
FromInt(k) ==
    IF k = 0 THEN FZero(0) ELSE Round[k * Pow2(ManBits + Bias - 1)]


----------------------------------------------------------------------------
\* Bounds of the scenarios.

NumAdders == 2      \* runQ: adderCount
LoaderCounts == 0..1 \* runQ: the values of loaderCount
OpCount == 2        \* runQ: operationCount
MixThreads == 3     \* concurrent callers of the four methods
MaxCalls == 3       \* calls made in one run of the concurrent callers
SeqCalls == 3       \* calls made by the single caller
SwapThreads == 3    \* concurrent callers of Swap
FairWriters == 1    \* threads writing for as long as they like
FairOpCount == 1    \* runQ under the fair scheduler: operationCount
SoloLoaders == 1    \* Load-only threads beside the single updater
WorkThreads == 2    \* writer threads whose compare-and-swaps are counted
WorkCalls == 2      \* calls made by each of them
FreeThreads == 2    \* threads calling the bitwise methods side by side
FreeCalls == 1      \* calls made by each of them

One == FromInt(1)
Two == FromInt(2)
Four == FromInt(4)

NoThread == 0 - 1
MainThread == 0

VARIABLES
    scn,         \* the scenario driving the instance
    variant,     \* "cas" (atomicFloatCAS), "cas2" (atomicFloatCAS2), "mutex" (atomicFloatMutex)
    initial,     \* the constructor's argument
    role,        \* per thread: what it runs
    u64,         \* atomicFloatCAS.u64 / atomicFloatCAS2.u64
    f64,         \* atomicFloatMutex.f64
    l,           \* atomicFloatMutex.l
    pc,          \* per thread: where it is
    cur,         \* per thread: the call in progress
    loc,         \* per thread: the locals of the method it is in
    left,        \* per thread: calls it has still to make (its loop counter)
    adderGroup,  \* runQ: sync.WaitGroup counter
    loaderGroup, \* runQ: sync.WaitGroup counter
    got,         \* runQ: the final af.Load()
    failed,      \* runQ: tb.Errorf was called
    hist,        \* the completed calls, in order of return (observer)
    seen,        \* per pending Load: the values stored during the call (observer)
    work         \* compare-and-swaps that failed, writes that succeeded (observer)

vars == <<scn, variant, initial, role, u64, f64, l, pc, cur, loc, left,
          adderGroup, loaderGroup, got, failed, hist, seen, work>>
setup == <<scn, variant, initial, role>>
harness == <<adderGroup, loaderGroup, got, failed>>

Variants == {"cas", "cas2", "mutex"}
Bitwise == {"cas", "cas2"}

NoCall == [name |-> "none", arg |-> FZero(0), pre |-> 0]
NoLoc == [oldBits |-> 0, newBits |-> 0, newValue |-> FZero(0), reg |-> FZero(0)]
Unlocked == [w |-> NoThread, readers |-> {}, rwait |-> {}]

\* The constructors.
NewAtomicFloatCAS(init) == Float64bits(init)
NewAtomicFloatCAS2(init) == Float64bits(init)
NewAtomicFloatMutex(init) == [f64 |-> init, l |-> Unlocked]

\* The logical value of the instance.
Stored == IF variant = "mutex" THEN f64 ELSE Float64frombits(u64)
StoredNext == IF variant = "mutex" THEN f64' ELSE Float64frombits(u64')

Recording == scn \in {"mix", "seq", "swap", "pair"}
Counting == scn = "work"
\* The steps of the bitwise methods that write the cell when they return.
AtomicWrite == {"Add:cas", "Store:atomic", "Swap:atomic"}
NoWork == [fails |-> 0, writes |-> 0]

\* The first step of a method of the instance.
Entry(name) ==
    IF variant = "mutex"
    THEN CASE name = "Add" -> "Add:Lock"
           [] name = "Load" -> "Load:RLock"
           [] name = "Store" -> "Store:Lock"
           [] name = "Swap" -> "Swap:Lock"
    ELSE CASE name = "Add" -> "Add:load"
           [] name = "Load" -> "Load:atomic"
           [] name = "Store" -> "Store:atomic"
           [] name = "Swap" -> "Swap:atomic"

SeenNext(t, returning) ==
    [s \in DOMAIN seen |->
        IF returning /\ s = t THEN {}
        ELSE IF Recording /\ cur[s].name = "Load" THEN seen[s] \cup {StoredNext}
        ELSE seen[s]]

\* Thread t calls method name with argument arg.
Invoke(t, name, arg) ==
    /\ pc[t] = "idle"
    /\ pc' = [pc EXCEPT ![t] = Entry(name)]
    /\ cur' = [cur EXCEPT ![t] = [name |-> name, arg |-> arg, pre |-> Len(hist)]]
    /\ left' = [left EXCEPT ![t] = IF @ > 0 THEN @ - 1 ELSE 0]
    /\ seen' = IF Recording /\ name = "Load" THEN [seen EXCEPT ![t] = {Stored}] ELSE seen
    /\ UNCHANGED <<setup, u64, f64, l, loc, harness, hist, work>>

\* Thread t's call returns v to its caller.
Return(t, v) ==
    /\ pc' = [pc EXCEPT ![t] = IF role[t] = "main" THEN "check" ELSE "idle"]
    /\ cur' = [cur EXCEPT ![t] = NoCall]
    /\ loc' = [loc EXCEPT ![t] = NoLoc]
    /\ got' = IF role[t] = "main" THEN v ELSE got
    /\ hist' = IF Recording
               THEN Append(hist, [name |-> cur[t].name, arg |-> cur[t].arg, ret |-> v,
                                  pre |-> cur[t].pre, win |-> seen[t]])
               ELSE hist
    /\ seen' = SeenNext(t, TRUE)
    /\ work' = IF Counting /\ pc[t] \in AtomicWrite
               THEN [work EXCEPT !.writes = @ + 1] ELSE work
    /\ UNCHANGED <<setup, left, adderGroup, loaderGroup, failed>>

\* Thread t moves on to `next` inside its method.
Goto(t, next) ==
    /\ pc' = [pc EXCEPT ![t] = next]
    /\ seen' = SeenNext(t, FALSE)
    /\ work' = IF Counting /\ pc[t] = "Add:cas" /\ next = "Add:load"
               THEN [work EXCEPT !.fails = @ + 1] ELSE work
    /\ UNCHANGED <<setup, cur, left, harness, hist>>

----------------------------------------------------------------------------
\* sync/atomic on a uint64 cell.

\* A compare-and-swap that never swaps.
NeverSwapUint64(cell, old, new) == [swapped |-> FALSE, cell |-> cell]

\* A compare-and-swap that never compares: it stores unconditionally.
BlindSwapUint64(cell, old, new) == [swapped |-> TRUE, cell |-> new]

\* atomic.CompareAndSwapUint64(&cell, old, new): whether it swapped, and the
\* cell afterwards.
CompareAndSwapUint64(cell, old, new) ==
    [swapped |-> cell = old, cell |-> IF cell = old THEN new ELSE cell]

\* The locals of one attempt of Add: oldBits, newValue, newBits.
Attempt(t) ==
    LET oldBits == u64
        newValue == FAdd[Float64frombits(oldBits), cur[t].arg]
    IN  [loc[t] EXCEPT !.oldBits = oldBits, !.newValue = newValue,
                       !.newBits = Float64bits(newValue)]

\* atomicFloatCAS (README): for { load; compute; if CAS { return newValue } }
ForLoad(t) ==
    /\ pc[t] = "Add:load"
    /\ loc' = [loc EXCEPT ![t] = Attempt(t)]
    /\ UNCHANGED <<u64, f64, l>>
    /\ Goto(t, "Add:cas")

ForCompareAndSwap(t) ==
    /\ pc[t] = "Add:cas"
    /\ LET r == CompareAndSwapUint64(u64, loc[t].oldBits, loc[t].newBits)
       IN  /\ u64' = r.cell
           /\ UNCHANGED <<f64, l>>
           /\ IF r.swapped
              THEN Return(t, loc[t].newValue)
              ELSE loc' = loc /\ Goto(t, "Add:load")

CAS_Add_Load(t) == variant = "cas" /\ ForLoad(t)
CAS_Add_CompareAndSwap(t) == variant = "cas" /\ ForCompareAndSwap(t)

CAS_Load(t) ==
    /\ variant = "cas" /\ pc[t] = "Load:atomic"
    /\ UNCHANGED <<u64, f64, l>>
    /\ Return(t, Float64frombits(u64))

\* A Store that waits while another thread is between its load and its
\* compare-and-swap.
CAS_Store_Waiting(t) ==
    /\ variant = "cas" /\ pc[t] = "Store:atomic"
    /\ \A s \in DOMAIN pc \ {t} : pc[s] # "Add:cas"
    /\ u64' = Float64bits(cur[t].arg)
    /\ UNCHANGED <<f64, l>>
    /\ Return(t, FZero(0))

CAS_Store(t) ==
    /\ variant = "cas" /\ pc[t] = "Store:atomic"
    /\ u64' = Float64bits(cur[t].arg)
    /\ UNCHANGED <<f64, l>>
    /\ Return(t, FZero(0))

CAS_Swap(t) ==
    /\ variant = "cas" /\ pc[t] = "Swap:atomic"
    /\ u64' = Float64bits(cur[t].arg)
    /\ UNCHANGED <<f64, l>>
    /\ Return(t, Float64frombits(u64))

\* atomicFloatCAS2 (cas2.go): loop: load; compute; if !CAS { goto loop }; return newValue
GotoLoad(t) ==
    /\ pc[t] = "Add:load"
    /\ loc' = [loc EXCEPT ![t] = Attempt(t)]
    /\ UNCHANGED <<u64, f64, l>>
    /\ Goto(t, "Add:cas")

\* A compare-and-swap step without the goto: it falls through to the return.
GotoFallThrough(t) ==
    /\ pc[t] = "Add:cas"
    /\ LET r == CompareAndSwapUint64(u64, loc[t].oldBits, loc[t].newBits)
       IN  /\ u64' = r.cell
           /\ UNCHANGED <<f64, l>>
           /\ Return(t, loc[t].newValue)

GotoCompareAndSwap(t) ==
    /\ pc[t] = "Add:cas"
    /\ LET r == CompareAndSwapUint64(u64, loc[t].oldBits, loc[t].newBits)
       IN  /\ u64' = r.cell
           /\ UNCHANGED <<f64, l>>
           /\ IF ~r.swapped
              THEN loc' = loc /\ Goto(t, "Add:load")
              ELSE Return(t, loc[t].newValue)

CAS2_Add_Load(t) == variant = "cas2" /\ GotoLoad(t)
CAS2_Add_CompareAndSwap(t) == variant = "cas2" /\ GotoCompareAndSwap(t)

CAS2_Load(t) ==
    /\ variant = "cas2" /\ pc[t] = "Load:atomic"
    /\ UNCHANGED <<u64, f64, l>>
    /\ Return(t, Float64frombits(u64))

CAS2_Store(t) ==
    /\ variant = "cas2" /\ pc[t] = "Store:atomic"
    /\ u64' = Float64bits(cur[t].arg)
    /\ UNCHANGED <<f64, l>>
    /\ Return(t, FZero(0))

CAS2_Swap(t) ==
    /\ variant = "cas2" /\ pc[t] = "Swap:atomic"
    /\ u64' = Float64bits(cur[t].arg)
    /\ UNCHANGED <<f64, l>>
    /\ Return(t, Float64frombits(u64))

----------------------------------------------------------------------------
\* sync.RWMutex.  l.w is the writer that has announced itself (it holds the
\* lock once no reader is left), l.readers the threads holding the lock in
\* read mode, l.rwait the readers that arrived behind an announced writer and
\* are let in together when it unlocks.

\* A Lock that does not wait for the writer before it.
LockUnguarded(t, wait, crit) ==
    /\ l' = [l EXCEPT !.w = t]
    /\ Goto(t, IF l.readers = {} THEN crit ELSE wait)

Lock(t, wait, crit) ==
    /\ l.w = NoThread
    /\ l' = [l EXCEPT !.w = t]
    /\ Goto(t, IF l.readers = {} THEN crit ELSE wait)

\* A Lock that returns while readers still hold the lock.
LockWakeEarly(t, crit) ==
    /\ l.w = t
    /\ l' = l
    /\ Goto(t, crit)

LockWake(t, crit) ==
    /\ l.w = t /\ l.readers = {}
    /\ l' = l
    /\ Goto(t, crit)

Unlock(t) == l' = [w |-> NoThread, readers |-> l.rwait, rwait |-> {}]

\* An RLock that enters whether or not a writer holds the lock.
RLockUnguarded(t, wait, crit) ==
    l' = [l EXCEPT !.readers = @ \cup {t}] /\ Goto(t, crit)

\* An RLock that excludes other readers, as a plain mutex would.
RLockExclusive(t, wait, crit) ==
    IF l.w = NoThread /\ l.readers = {}
    THEN l' = [l EXCEPT !.readers = @ \cup {t}] /\ Goto(t, crit)
    ELSE l' = [l EXCEPT !.rwait = @ \cup {t}] /\ Goto(t, wait)

RLock(t, wait, crit) ==
    IF l.w = NoThread
    THEN l' = [l EXCEPT !.readers = @ \cup {t}] /\ Goto(t, crit)
    ELSE l' = [l EXCEPT !.rwait = @ \cup {t}] /\ Goto(t, wait)

RLockWake(t, crit) ==
    /\ t \in l.readers
    /\ l' = l
    /\ Goto(t, crit)

\* A missing RUnlock.
RUnlockMissing(t) == l' = l

RUnlock(t) == l' = [l EXCEPT !.readers = @ \ {t}]

\* atomicFloatMutex.Add
Mutex_Add_Lock(t) ==
    /\ variant = "mutex" /\ pc[t] = "Add:Lock"
    /\ UNCHANGED <<u64, f64, loc>>
    /\ Lock(t, "Add:LockWait", "Add:read")

Mutex_Add_LockWake(t) ==
    /\ variant = "mutex" /\ pc[t] = "Add:LockWait"
    /\ UNCHANGED <<u64, f64, loc>>
    /\ LockWake(t, "Add:read")

\* a.f64 += delta reads the field ...
Mutex_Add_Read(t) ==
    /\ variant = "mutex" /\ pc[t] = "Add:read"
    /\ loc' = [loc EXCEPT ![t].reg = f64]
    /\ UNCHANGED <<u64, f64, l>>
    /\ Goto(t, "Add:write")

\* ... and writes the sum back.
Mutex_Add_Write(t) ==
    /\ variant = "mutex" /\ pc[t] = "Add:write"
    /\ f64' = FAdd[loc[t].reg, cur[t].arg]
    /\ UNCHANGED <<u64, l, loc>>
    /\ Goto(t, "Add:new")

\* new := a.f64
Mutex_Add_New(t) ==
    /\ variant = "mutex" /\ pc[t] = "Add:new"
    /\ loc' = [loc EXCEPT ![t].reg = f64]
    /\ UNCHANGED <<u64, f64, l>>
    /\ Goto(t, "Add:Unlock")

Mutex_Add_Unlock(t) ==
    /\ variant = "mutex" /\ pc[t] = "Add:Unlock"
    /\ Unlock(t)
    /\ UNCHANGED <<u64, f64>>
    /\ Return(t, loc[t].reg)

\* atomicFloatMutex.Load
Mutex_Load_RLock(t) ==
    /\ variant = "mutex" /\ pc[t] = "Load:RLock"
    /\ UNCHANGED <<u64, f64, loc>>
    /\ RLock(t, "Load:RLockWait", "Load:f")

Mutex_Load_RLockWake(t) ==
    /\ variant = "mutex" /\ pc[t] = "Load:RLockWait"
    /\ UNCHANGED <<u64, f64, loc>>
    /\ RLockWake(t, "Load:f")

\* f := a.f64
Mutex_Load_Read(t) ==
    /\ variant = "mutex" /\ pc[t] = "Load:f"
    /\ loc' = [loc EXCEPT ![t].reg = f64]
    /\ UNCHANGED <<u64, f64, l>>
    /\ Goto(t, "Load:RUnlock")

Mutex_Load_RUnlock(t) ==
    /\ variant = "mutex" /\ pc[t] = "Load:RUnlock"
    /\ RUnlock(t)
    /\ UNCHANGED <<u64, f64>>
    /\ Return(t, loc[t].reg)

\* atomicFloatMutex.Store
Mutex_Store_Lock(t) ==
    /\ variant = "mutex" /\ pc[t] = "Store:Lock"
    /\ UNCHANGED <<u64, f64, loc>>
    /\ Lock(t, "Store:LockWait", "Store:write")

Mutex_Store_LockWake(t) ==
    /\ variant = "mutex" /\ pc[t] = "Store:LockWait"
    /\ UNCHANGED <<u64, f64, loc>>
    /\ LockWake(t, "Store:write")

\* a.f64 = new
Mutex_Store_Write(t) ==
    /\ variant = "mutex" /\ pc[t] = "Store:write"
    /\ f64' = cur[t].arg
    /\ UNCHANGED <<u64, l, loc>>
    /\ Goto(t, "Store:Unlock")

Mutex_Store_Unlock(t) ==
    /\ variant = "mutex" /\ pc[t] = "Store:Unlock"
    /\ Unlock(t)
    /\ UNCHANGED <<u64, f64>>
    /\ Return(t, FZero(0))

\* atomicFloatMutex.Swap
Mutex_Swap_Lock(t) ==
    /\ variant = "mutex" /\ pc[t] = "Swap:Lock"
    /\ UNCHANGED <<u64, f64, loc>>
    /\ Lock(t, "Swap:LockWait", "Swap:old")

Mutex_Swap_LockWake(t) ==
    /\ variant = "mutex" /\ pc[t] = "Swap:LockWait"
    /\ UNCHANGED <<u64, f64, loc>>
    /\ LockWake(t, "Swap:old")

\* old := a.f64
Mutex_Swap_Old(t) ==
    /\ variant = "mutex" /\ pc[t] = "Swap:old"
    /\ loc' = [loc EXCEPT ![t].reg = f64]
    /\ UNCHANGED <<u64, f64, l>>
    /\ Goto(t, "Swap:write")

\* a.f64 = new
Mutex_Swap_Write(t) ==
    /\ variant = "mutex" /\ pc[t] = "Swap:write"
    /\ f64' = cur[t].arg
    /\ UNCHANGED <<u64, l, loc>>
    /\ Goto(t, "Swap:Unlock")

Mutex_Swap_Unlock(t) ==
    /\ variant = "mutex" /\ pc[t] = "Swap:Unlock"
    /\ Unlock(t)
    /\ UNCHANGED <<u64, f64>>
    /\ Return(t, loc[t].reg)

\* One step inside a method, per method; the steps that end a wait inside
\* Lock or RLock apart.
AddStep(t) ==
    \/ CAS_Add_Load(t) \/ CAS_Add_CompareAndSwap(t)
    \/ CAS2_Add_Load(t) \/ CAS2_Add_CompareAndSwap(t)
    \/ Mutex_Add_Lock(t) \/ Mutex_Add_Read(t)
    \/ Mutex_Add_Write(t) \/ Mutex_Add_New(t) \/ Mutex_Add_Unlock(t)

LoadStep(t) ==
    \/ CAS_Load(t) \/ CAS2_Load(t)
    \/ Mutex_Load_RLock(t) \/ Mutex_Load_Read(t) \/ Mutex_Load_RUnlock(t)

StoreStep(t) ==
    \/ CAS_Store(t) \/ CAS2_Store(t)
    \/ Mutex_Store_Lock(t) \/ Mutex_Store_Write(t) \/ Mutex_Store_Unlock(t)

SwapStep(t) ==
    \/ CAS_Swap(t) \/ CAS2_Swap(t)
    \/ Mutex_Swap_Lock(t) \/ Mutex_Swap_Old(t)
    \/ Mutex_Swap_Write(t) \/ Mutex_Swap_Unlock(t)

----------------------------------------------------------------------------
\* runQ (benchmark_test.go): adderCount goroutines each call af.Add(1)
\* operationCount times, loaderCount goroutines each call af.Load()
\* operationCount times; the main goroutine waits for both groups, then
\* compares af.Load() with float64(adderCount*operationCount).
\* (A loader's local sum is never read and is left out.)

Adders == 1..NumAdders
MaxLoaders == CHOOSE n \in LoaderCounts : \A m \in LoaderCounts : m <= n
HarnessThreads == 0..(NumAdders + MaxLoaders)
adderCount == Cardinality({t \in DOMAIN role : role[t] = "adder"})
loaderCount == Cardinality({t \in DOMAIN role : role[t] = "loader"})
operationCount == IF scn = "fairq" THEN FairOpCount ELSE OpCount
want == FromInt(adderCount * operationCount)

AdderCall(t) ==
    /\ role[t] = "adder" /\ left[t] > 0
    /\ Invoke(t, "Add", One)

AdderDone(t) ==
    /\ role[t] = "adder" /\ pc[t] = "idle" /\ left[t] = 0
    /\ adderGroup' = adderGroup - 1
    /\ pc' = [pc EXCEPT ![t] = "done"]
    /\ UNCHANGED <<setup, u64, f64, l, cur, loc, left, loaderGroup, got, failed, hist, seen, work>>

LoaderCall(t) ==
    /\ role[t] = "loader" /\ left[t] > 0
    /\ Invoke(t, "Load", FZero(0))

LoaderDone(t) ==
    /\ role[t] = "loader" /\ pc[t] = "idle" /\ left[t] = 0
    /\ loaderGroup' = loaderGroup - 1
    /\ pc' = [pc EXCEPT ![t] = "done"]
    /\ UNCHANGED <<setup, u64, f64, l, cur, loc, left, adderGroup, got, failed, hist, seen, work>>

\* loaderGroup.Wait()
MainWaitLoaders ==
    /\ pc[MainThread] = "loaderGroup.Wait" /\ loaderGroup = 0
    /\ pc' = [pc EXCEPT ![MainThread] = "adderGroup.Wait"]
    /\ UNCHANGED <<setup, u64, f64, l, cur, loc, left, harness, hist, seen, work>>

\* adderGroup.Wait()
MainWaitAdders ==
    /\ pc[MainThread] = "adderGroup.Wait" /\ adderGroup = 0
    /\ pc' = [pc EXCEPT ![MainThread] = "idle"]
    /\ UNCHANGED <<setup, u64, f64, l, cur, loc, left, harness, hist, seen, work>>

\* got := af.Load()
MainLoad ==
    /\ role[MainThread] = "main" /\ left[MainThread] > 0
    /\ Invoke(MainThread, "Load", FZero(0))

\* if got != want { tb.Errorf(...) }
MainCheck ==
    /\ pc[MainThread] = "check"
    /\ failed' = ~FEq(got, want)
    /\ pc' = [pc EXCEPT ![MainThread] = "done"]
    /\ UNCHANGED <<setup, u64, f64, l, cur, loc, left, adderGroup, loaderGroup, got, hist, seen, work>>

\* The state a scenario starts in: the instance as its constructor leaves it,
\* every thread before its first call.
Start(s, v, init, roles, calls, adders, loaders) ==
    /\ scn = s /\ variant = v /\ initial = init /\ role = roles
    /\ u64 = (IF v = "cas" THEN NewAtomicFloatCAS(init)
              ELSE IF v = "cas2" THEN NewAtomicFloatCAS2(init) ELSE 0)
    /\ f64 = (IF v = "mutex" THEN NewAtomicFloatMutex(init).f64 ELSE FZero(0))
    /\ l = NewAtomicFloatMutex(init).l
    /\ pc = [t \in DOMAIN roles |->
                IF roles[t] = "main" THEN "loaderGroup.Wait"
                ELSE IF roles[t] = "none" THEN "done" ELSE "idle"]
    /\ cur = [t \in DOMAIN roles |-> NoCall]
    /\ loc = [t \in DOMAIN roles |-> NoLoc]
    /\ left = calls
    /\ adderGroup = adders /\ loaderGroup = loaders
    /\ got = FZero(0) /\ failed = FALSE
    /\ hist = <<>>
    /\ seen = [t \in DOMAIN roles |-> {}]
    /\ work = NoWork

HarnessRoles(nl) ==
    [t \in HarnessThreads |->
        IF t = MainThread THEN "main"
        ELSE IF t \in Adders THEN "adder"
        ELSE IF t <= NumAdders + nl THEN "loader" ELSE "none"]

HarnessCalls(nl) ==
    [t \in HarnessThreads |->
        IF t = MainThread THEN 1
        ELSE IF t <= NumAdders + nl THEN OpCount ELSE 0]

\* BenchmarkProducerConsumer: af := New...(0); runQ(b, af, ...)
InitHarness ==
    \E v \in Variants, nl \in LoaderCounts :
        Start("harness", v, FZero(0), HarnessRoles(nl), HarnessCalls(nl), NumAdders, nl)

NextHarness ==
    \/ \E t \in HarnessThreads :
          \/ AdderCall(t) \/ AdderDone(t) \/ LoaderCall(t) \/ LoaderDone(t)
          \/ AddStep(t) \/ LoadStep(t)
          \/ Mutex_Add_LockWake(t) \/ Mutex_Load_RLockWake(t)
    \/ MainWaitLoaders \/ MainWaitAdders \/ MainLoad \/ MainCheck

SpecHarness == InitHarness /\ [][NextHarness]_vars

\* runQ on an instance constructed with other initial values.
EquivInitials == {FZero(0), Inf(1), [sign |-> 0, exp |-> ExpMax, man |-> 1],
                  [sign |-> 0, exp |-> Bias - 1, man |-> 0]}

InitEquiv ==
    \E v \in Variants, nl \in LoaderCounts, init \in EquivInitials :
        Start("harness", v, init, HarnessRoles(nl), HarnessCalls(nl), NumAdders, nl)

SpecEquiv == InitEquiv /\ [][NextHarness]_vars

\* runQ under a scheduler that never idles while some goroutine can run.
FairCalls(nl) ==
    [t \in HarnessThreads |->
        IF t = MainThread THEN 1
        ELSE IF t <= NumAdders + nl THEN FairOpCount ELSE 0]

InitHarnessFair ==
    \E v \in Variants, nl \in LoaderCounts :
        Start("fairq", v, FZero(0), HarnessRoles(nl), FairCalls(nl), NumAdders, nl)

SpecHarnessFair ==
    InitHarnessFair /\ [][NextHarness]_vars /\ WF_vars(NextHarness)

----------------------------------------------------------------------------
\* Concurrent callers: MixThreads threads make MaxCalls calls in all, each
\* any of the four methods.  (Sharing that budget, a caller's `left` only
\* tells whether its first call is still to be made.)

Callers == 1..MixThreads
MixCalls == {[name |-> "Load", arg |-> FZero(0)], [name |-> "Add", arg |-> One],
             [name |-> "Store", arg |-> Two], [name |-> "Swap", arg |-> Four]}
Begun == Len(hist) + Cardinality({t \in DOMAIN cur : cur[t].name # "none"})

\* The callers are alike: they make their first calls in the order of their
\* numbers, which leaves out only runs that differ by renaming threads.
CallerCall(t) ==
    /\ role[t] = "caller" /\ Begun < MaxCalls
    /\ (IF t = 1 THEN TRUE ELSE left[t - 1] = 0)
    /\ \E c \in MixCalls : Invoke(t, c.name, c.arg)

InitMix ==
    \E v \in Variants :
        Start("mix", v, FZero(0), [t \in Callers |-> "caller"],
              [t \in Callers |-> 1], 0, 0)

NextMix ==
    \E t \in Callers :
        \/ CallerCall(t) \/ AddStep(t) \/ LoadStep(t) \/ StoreStep(t) \/ SwapStep(t)
        \/ Mutex_Add_LockWake(t) \/ Mutex_Load_RLockWake(t)
        \/ Mutex_Store_LockWake(t) \/ Mutex_Swap_LockWake(t)

SpecMix == InitMix /\ [][NextMix]_vars

----------------------------------------------------------------------------
\* A single caller makes SeqCalls calls, over special values as well.  Alone,
\* it never waits inside Lock or RLock.

SeqArgs == {One, FZero(1), Inf(1)}
SeqInitials == {FZero(0), Inf(0), DefaultNaN}
SeqCallSet == {[name |-> "Load", arg |-> FZero(0)]}
              \cup [name : {"Add", "Store", "Swap"}, arg : SeqArgs]

SeqCall(t) ==
    /\ role[t] = "single" /\ left[t] > 0
    /\ \E c \in SeqCallSet : Invoke(t, c.name, c.arg)

InitSeq ==
    \E v \in Variants, init \in SeqInitials :
        Start("seq", v, init, [t \in {1} |-> "single"], [t \in {1} |-> SeqCalls], 0, 0)

NextSeq == SeqCall(1) \/ AddStep(1) \/ LoadStep(1) \/ StoreStep(1) \/ SwapStep(1)

SpecSeq == InitSeq /\ [][NextSeq]_vars

----------------------------------------------------------------------------
\* Concurrent swappers: thread t calls Swap(float64(t)) once; the main thread
\* waits for all of them and then calls Load.  No reader runs beside a
\* swapper, so no call waits inside Lock or RLock for the other kind.

Swappers == 1..SwapThreads
SwapThreadSet == 0..SwapThreads

SwapperCall(t) ==
    /\ role[t] = "swapper" /\ left[t] > 0
    /\ Invoke(t, "Swap", FromInt(t))

SwapperDone(t) ==
    /\ role[t] = "swapper" /\ pc[t] = "idle" /\ left[t] = 0
    /\ adderGroup' = adderGroup - 1
    /\ pc' = [pc EXCEPT ![t] = "done"]
    /\ UNCHANGED <<setup, u64, f64, l, cur, loc, left, loaderGroup, got, failed, hist, seen, work>>

InitSwap ==
    \E v \in Variants :
        Start("swap", v, FZero(0),
              [t \in SwapThreadSet |-> IF t = MainThread THEN "main" ELSE "swapper"],
              [t \in SwapThreadSet |-> 1], SwapThreads, 0)

NextSwap ==
    \/ \E t \in SwapThreadSet :
          SwapperCall(t) \/ SwapperDone(t) \/ SwapStep(t) \/ LoadStep(t)
    \/ MainWaitLoaders \/ MainWaitAdders \/ MainLoad

SpecSwap == InitSwap /\ [][NextSwap]_vars

----------------------------------------------------------------------------
\* A single updater: thread 1 makes SeqCalls calls of any of the four methods
\* on a bitwise instance while SoloLoaders other threads only call Load.

SoloThreads == 1..(1 + SoloLoaders)

BitwiseStep(t) ==
    \/ CAS_Add_Load(t) \/ CAS_Add_CompareAndSwap(t) \/ CAS_Load(t)
    \/ CAS_Store(t) \/ CAS_Swap(t)
    \/ CAS2_Add_Load(t) \/ CAS2_Add_CompareAndSwap(t) \/ CAS2_Load(t)
    \/ CAS2_Store(t) \/ CAS2_Swap(t)

InitSolo ==
    \E v \in Bitwise, init \in SeqInitials :
        Start("solo", v, init,
              [t \in SoloThreads |-> IF t = 1 THEN "single" ELSE "loader"],
              [t \in SoloThreads |-> IF t = 1 THEN SeqCalls ELSE OpCount], 0, SoloLoaders)

NextSolo ==
    \/ SeqCall(1)
    \/ \E t \in SoloThreads : LoaderCall(t) \/ LoaderDone(t) \/ BitwiseStep(t)

SpecSolo == InitSolo /\ [][NextSolo]_vars

----------------------------------------------------------------------------
\* One Add beside one Store or Swap: thread 1 calls Add(d) once, thread 2
\* calls Store(v) or Swap(v) once, on an instance holding x.  No Load runs, so
\* no call waits inside Lock for readers to leave.

PairThreads == 1..2

PairAdd ==
    /\ left[1] > 0
    /\ \E d \in SeqArgs : Invoke(1, "Add", d)

PairWrite ==
    /\ left[2] > 0
    /\ \E v \in SeqArgs, name \in {"Store", "Swap"} : Invoke(2, name, v)

InitPair ==
    \E v \in Variants, x \in SeqInitials :
        Start("pair", v, x, [t \in PairThreads |-> IF t = 1 THEN "adder" ELSE "writer"],
              [t \in PairThreads |-> 1], 0, 0)

NextPair == PairAdd \/ PairWrite \/ AddStep(1) \/ StoreStep(2) \/ SwapStep(2)

SpecPair == InitPair /\ [][NextPair]_vars

----------------------------------------------------------------------------
\* Writers only: WorkThreads threads each make WorkCalls calls of Add(1),
\* Store(1) or Swap(1) on a bitwise instance, the failed compare-and-swaps
\* and the successful writes being counted.

Workers == 1..WorkThreads
WorkCallSet == [name : {"Add", "Store", "Swap"}, arg : {One}]

\* The workers are alike: they make their first calls in the order of their
\* numbers.
WorkerCall(t) ==
    /\ role[t] = "worker" /\ left[t] > 0
    /\ (IF t = 1 THEN TRUE ELSE left[t - 1] < WorkCalls)
    /\ \E c \in WorkCallSet : Invoke(t, c.name, c.arg)

BitwiseWriteStep(t) ==
    \/ CAS_Add_Load(t) \/ CAS_Add_CompareAndSwap(t) \/ CAS_Store(t) \/ CAS_Swap(t)
    \/ CAS2_Add_Load(t) \/ CAS2_Add_CompareAndSwap(t) \/ CAS2_Store(t) \/ CAS2_Swap(t)

InitWork ==
    \E v \in Bitwise :
        Start("work", v, FZero(0), [t \in Workers |-> "worker"],
              [t \in Workers |-> WorkCalls], 0, 0)

NextWork == \E t \in Workers : WorkerCall(t) \/ BitwiseWriteStep(t)

SpecWork == InitWork /\ [][NextWork]_vars

-----------------------------------------------------------------------------
\* Bitwise callers only: FreeThreads threads each make FreeCalls calls of any
\* of the four methods on a bitwise instance.  A thread may be left standing
\* at any point of its call while the others go on.

FreeCallers == 1..FreeThreads

FreeCall(t) ==
    /\ role[t] = "free" /\ left[t] > 0
    /\ \E c \in MixCalls : Invoke(t, c.name, c.arg)

InitFree ==
    \E v \in Bitwise :
        Start("free", v, FZero(0), [t \in FreeCallers |-> "free"],
              [t \in FreeCallers |-> FreeCalls], 0, 0)

NextFree == \E t \in FreeCallers : FreeCall(t) \/ BitwiseStep(t)

SpecFree == InitFree /\ [][NextFree]_vars

----------------------------------------------------------------------------
\* One thread calls Add(1) once on a bitwise instance while FairWriters other
\* threads call Add, Store and Swap for as long as they like.  The scheduler
\* is fair: a thread that can take a step eventually takes one.

FairThreads == 1..(1 + FairWriters)
WriterCalls == {[name |-> "Add", arg |-> Inf(0)], [name |-> "Store", arg |-> Two],
                [name |-> "Swap", arg |-> Four]}

WriterCall(t) ==
    /\ role[t] = "writer"
    /\ \E c \in WriterCalls : Invoke(t, c.name, c.arg)

WriterStop(t) ==
    /\ role[t] = "writer" /\ pc[t] = "idle"
    /\ pc' = [pc EXCEPT ![t] = "done"]
    /\ UNCHANGED <<setup, u64, f64, l, cur, loc, left, harness, hist, seen, work>>

FairStep(t) ==
    \/ AdderCall(t) \/ WriterCall(t) \/ WriterStop(t)
    \/ CAS_Add_Load(t) \/ CAS_Add_CompareAndSwap(t) \/ CAS_Store(t) \/ CAS_Swap(t)
    \/ CAS2_Add_Load(t) \/ CAS2_Add_CompareAndSwap(t) \/ CAS2_Store(t) \/ CAS2_Swap(t)

InitFair ==
    \E v \in Bitwise :
        Start("fair", v, FZero(0), [t \in FairThreads |-> IF t = 1 THEN "adder" ELSE "writer"],
              [t \in FairThreads |-> 1], 0, 0)

NextFair == \E t \in FairThreads : FairStep(t)

SpecFair == InitFair /\ [][NextFair]_vars /\ \A t \in FairThreads : WF_vars(FairStep(t))

----------------------------------------------------------------------------
\* Properties.

MainReturned == pc[MainThread] \in {"check", "done"}

\* C1: in runQ on an instance constructed with 0, whatever the interleaving
\* and whichever the variant, the final af.Load() is exactly
\* adderCount*operationCount, and the harness reports no error.
C1_AccumulationExact ==
    /\ MainReturned => got = FromInt(NumAdders * OpCount)
    /\ pc[MainThread] = "done" => ~failed

C1_Witness ==
    /\ pc[MainThread] = "done" /\ ~failed /\ loaderCount > 0
    /\ got = FromInt(NumAdders * OpCount) /\ ~IsZero(got)

\* x + 1 + 1 + ... (n times), on a plain variable.
RECURSIVE Accumulate(_, _)
Accumulate(x, n) == IF n = 0 THEN x ELSE Accumulate(FAdd[x, One], n - 1)

\* C5: for the same initial value and the same numbers of adders, loaders and
\* operations, every run of every variant ends with the same final Load()
\* value: the one that adding 1 to a plain variable that many times gives.
C5_VariantsAgree ==
    MainReturned => got = Accumulate(initial, NumAdders * OpCount)

C5_Witness ==
    /\ MainReturned /\ variant = "mutex" /\ initial = [sign |-> 0, exp |-> Bias - 1, man |-> 0]
    /\ got = Accumulate(initial, NumAdders * OpCount) /\ got # initial

\* What a call does to a plain, unshared float64 variable holding val.
Apply(val, c) ==
    CASE c.name = "Load" -> [val |-> val, ret |-> val]
      [] c.name = "Store" -> [val |-> c.arg, ret |-> FZero(0)]
      [] c.name = "Swap" -> [val |-> c.arg, ret |-> val]
      [] c.name = "Add" -> [val |-> FAdd[val, c.arg], ret |-> FAdd[val, c.arg]]

NoPending == \A t \in DOMAIN cur : cur[t].name = "none"

\* The completed calls not in `done` can be executed one after the other from
\* val, each after every call that returned before it was invoked, each
\* returning what it returned, and leaving the stored value.
RECURSIVE Linearizes(_, _)
Linearizes(done, val) ==
    IF done = 1..Len(hist) THEN NoPending => val = Stored
    ELSE \E i \in (1..Len(hist)) \ done :
            /\ \A j \in 1..hist[i].pre : j \in done
            /\ Apply(val, hist[i]).ret = hist[i].ret
            /\ Linearizes(done \cup {i}, Apply(val, hist[i]).val)

\* C2: the calls of concurrent Add, Store, Swap and Load callers have a total
\* order that respects real-time precedence and in which every call returns
\* what it returned and the last value is the stored one.
C2_Linearizable == Linearizes({}, initial)

C2_Witness ==
    /\ Len(hist) = MaxCalls /\ NoPending /\ variant = "cas2"
    /\ \E i, j \in 1..Len(hist) :
          /\ i < j /\ hist[j].pre < i
          /\ hist[i].name = "Store" /\ hist[j].name = "Add"
          /\ hist[j].ret = FAdd[Two, One]

\* C3: with SwapThreads concurrent Swap calls of pairwise distinct values, the
\* values the Swaps returned together with the final Load() are exactly the
\* initial value and the swapped-in values, each once.
C3_SwapAtomicity ==
    MainReturned =>
        LET swaps == SelectSeq(hist, LAMBDA h : h.name = "Swap")
            out == [i \in 1..(Len(swaps) + 1) |->
                       IF i <= Len(swaps) THEN swaps[i].ret ELSE got]
        IN  /\ Len(swaps) = SwapThreads
            /\ \A v \in {initial} \cup {FromInt(t) : t \in Swappers} :
                   Cardinality({i \in DOMAIN out : out[i] = v}) = 1

C3_Witness ==
    /\ MainReturned /\ variant = "mutex"
    /\ got = FromInt(1)
    /\ \E i \in 1..Len(hist) : hist[i].arg = FromInt(1) /\ hist[i].ret = FromInt(2)

WriteSection == {"Add:read", "Add:write", "Add:new", "Add:Unlock", "Store:write",
                 "Store:Unlock", "Swap:old", "Swap:write", "Swap:Unlock"}
ReadSection == {"Load:f", "Load:RUnlock"}
ReadsField == {"Add:read", "Add:new", "Swap:old", "Load:f"}
WritesField == {"Add:write", "Store:write", "Swap:write"}
LockWaiting == {"Add:LockWait", "Store:LockWait", "Swap:LockWait"}
HoldsWrite(t) == l.w = t /\ l.readers = {}
HoldsRead(t) == t \in l.readers

\* C6: in the mutex variant a thread inside the critical section of Add, Store
\* or Swap is alone inside any critical section; f64 is read only under the
\* lock (read or write mode) and written only under the lock in write mode.
C6_MutualExclusion ==
    variant = "mutex" =>
        \A t \in DOMAIN pc :
            /\ pc[t] \in WriteSection =>
                  \A s \in DOMAIN pc \ {t} : pc[s] \notin WriteSection \cup ReadSection
            /\ pc[t] \in ReadsField => HoldsRead(t) \/ HoldsWrite(t)
            /\ pc[t] \in WritesField => HoldsWrite(t)

C6_Witness ==
    /\ variant = "mutex"
    /\ \E t, s, r \in DOMAIN pc :
          /\ pc[t] = "Add:write" /\ pc[s] = "Load:RLockWait" /\ pc[r] = "Store:Lock"

IsWrite(h) == h.name \in {"Add", "Store", "Swap"}
Installed(h) == IF h.name = "Add" THEN h.ret ELSE h.arg

\* C7: every Load returns a value that was the stored value at some moment of
\* the call, and that is the initial value or the value installed by a Store,
\* a Swap or a successful Add that came before the Load's return.
C7_LoadReturnsCurrent ==
    \A i \in 1..Len(hist) :
        hist[i].name = "Load" =>
            /\ hist[i].ret \in hist[i].win
            /\ hist[i].ret \in {initial} \cup
                   {Installed(hist[j]) : j \in {k \in 1..(i - 1) : IsWrite(hist[k])}}

C7_Witness ==
    \E i \in 1..Len(hist) :
        /\ hist[i].name = "Load" /\ Cardinality(hist[i].win) > 1
        /\ hist[i].ret # initial /\ hist[i].pre = 0

\* C8: no step of a Load changes u64 or f64; when a Load returns, the lock
\* holds no trace of the caller and its writer is the one it had; and runQ
\* ends with the same value with and without loaders.
C8_ReadPurity ==
    /\ [][\A t \in HarnessThreads :
             (pc'[t] # pc[t] /\ (cur[t].name = "Load" \/ cur'[t].name = "Load")) =>
                 /\ u64' = u64 /\ f64' = f64
                 /\ cur'[t].name = "none" =>
                       /\ t \notin l'.readers /\ t \notin l'.rwait
                       /\ l'.w = l.w /\ l'.readers = l.readers \ {t}]_vars
    /\ [](MainReturned => got = Accumulate(initial, NumAdders * OpCount))

C8_Witness ==
    /\ variant = "mutex" /\ Stored = One
    /\ \E t \in HarnessThreads : role[t] = "loader" /\ left[t] = 0 /\ pc[t] = "idle"
    /\ \E t \in HarnessThreads : role[t] = "adder" /\ pc[t] = "Add:LockWait"

\* C9 as claimed: whenever readers hold the lock, another thread's RLock in
\* Load enters at once, writers waiting or not.
C9_Original ==
    [][\A t \in Callers :
          (variant = "mutex" /\ pc[t] = "Load:RLock" /\ l.readers # {} /\ pc'[t] # pc[t])
              => pc'[t] = "Load:f"]_vars

\* C9: whenever readers hold the lock and no Add, Store or Swap caller is
\* waiting inside Lock, another thread's RLock in Load enters at once.
C9_ReadersShare ==
    [][\A t \in Callers :
          (/\ variant = "mutex" /\ pc[t] = "Load:RLock" /\ l.readers # {}
           /\ \A s \in Callers : pc[s] \notin LockWaiting
           /\ pc'[t] # pc[t])
              => pc'[t] = "Load:f"]_vars

C9_Witness ==
    /\ variant = "mutex"
    /\ Cardinality({t \in Callers : pc[t] \in ReadSection}) >= 2
    /\ \E s \in Callers : pc[s] = "Add:Lock"

\* The value of the plain variable after the first k calls.
RECURSIVE PlainAfter(_)
PlainAfter(k) == IF k = 0 THEN initial ELSE Apply(PlainAfter(k - 1), hist[k]).val

\* C10: with a single caller every call returns what the same call on a plain
\* variable returns, in every variant, and the stored value is the plain
\* variable's.
C10_SequentialContract ==
    /\ \A i \in 1..Len(hist) : hist[i].ret = Apply(PlainAfter(i - 1), hist[i]).ret
    /\ NoPending => Stored = PlainAfter(Len(hist))

C10_Witness ==
    /\ variant = "cas" /\ initial = Inf(0) /\ Len(hist) = SeqCalls
    /\ hist[1].name = "Swap" /\ hist[1].arg = FZero(1)
    /\ hist[2].name = "Add" /\ hist[2].arg = FZero(1) /\ hist[2].ret = FZero(1)
    /\ hist[3].name = "Load" /\ hist[3].ret = FZero(1)

AddPending(t) == cur[t].name = "Add"
WritersDone == \A t \in FairThreads \ {1} : pc[t] = "done"

\* C4 as claimed: under a fair scheduler the Add of thread 1 returns, whatever
\* the other threads do.
C4_Original == AddPending(1) ~> ~AddPending(1)

\* C4: under a fair scheduler the Add of thread 1 returns once the other
\* threads have stopped calling Add, Store and Swap.
C4_AddReturns == (AddPending(1) /\ WritersDone) ~> ~AddPending(1)

\* The Add of thread 1 lost a compare-and-swap to a writer and is about to
\* retry, the writers having stopped.
C4_Witness ==
    /\ WritersDone /\ AddPending(1)
    /\ pc[1] = "Add:load" /\ loc[1] # NoLoc /\ loc[1].oldBits # u64

\* C11: under a fair scheduler a run of runQ ends: every adder and loader has
\* made all its calls and left its wait group, both groups are released and
\* the main goroutine has made the final check.
C11_HarnessTerminates ==
    <>(/\ pc[MainThread] = "done"
       /\ adderGroup = 0 /\ loaderGroup = 0
       /\ \A t \in HarnessThreads : pc[t] = "done" /\ left[t] = 0 /\ cur[t] = NoCall)

\* A run with a loader has ended: every goroutine is done, both groups are at 0.
C11_Witness ==
    /\ variant = "cas2" /\ loaderCount > 0
    /\ adderGroup = 0 /\ loaderGroup = 0
    /\ \A t \in HarnessThreads : pc[t] = "done" /\ left[t] = 0

OnlyAddOne ==
    /\ initial = FZero(0)
    /\ \A i \in 1..Len(hist) : hist[i].name = "Add" /\ hist[i].arg = One
    /\ \A t \in DOMAIN cur : cur[t].name \in {"none", "Add"}
AfterWrite == {"Add:new", "Add:Unlock"}

\* C12: the value an Add returns is the stored value just before its own
\* successful compare-and-swap (or its locked update) plus delta, and is the
\* stored value just after it; so when every call is Add(1) from 0, no two
\* Adds return the same value.
C12_AddReturnsInstalled ==
    /\ [][\A t \in Callers :
             /\ (cur[t].name = "Add" /\ cur'[t].name = "none") =>
                   /\ hist'[Len(hist')].ret = StoredNext
                   /\ variant \in Bitwise =>
                         /\ pc[t] = "Add:cas" /\ u64 = loc[t].oldBits
                         /\ hist'[Len(hist')].ret = FAdd[Stored, cur[t].arg]
                   /\ variant = "mutex" => pc[t] = "Add:Unlock" /\ StoredNext = Stored
             /\ (variant = "mutex" /\ pc[t] = "Add:write" /\ pc'[t] # pc[t]) =>
                   StoredNext = FAdd[Stored, cur[t].arg]
             /\ (variant = "mutex" /\ pc[t] \in AfterWrite /\ pc'[t] \in AfterWrite) =>
                   StoredNext = Stored]_vars
    /\ [](OnlyAddOne =>
            \A i, j \in 1..Len(hist) : i # j => hist[i].ret # hist[j].ret)

\* Three Adds invoked before any returned have returned 1, 2 and 3.
C12_Witness ==
    /\ variant = "cas" /\ OnlyAddOne /\ NoPending /\ Len(hist) = 3
    /\ \A i \in 1..3 : hist[i].pre = 0 /\ hist[i].ret = FromInt(i)

\* Thread s takes a step that writes another bit pattern into the cell.
WritesCell(s) ==
    /\ pc[s] \in {"Add:cas", "Store:atomic", "Swap:atomic"} /\ pc'[s] # pc[s]
    /\ u64' # u64
CasFails(t) == pc[t] = "Add:cas" /\ pc'[t] = "Add:load"

\* C13: in the bitwise Add, the cell equals oldBits right after the load and
\* stops being equal only by another thread's write; the compare-and-swap
\* fails only when the cell differs from oldBits; after a failure the next
\* step of the call loads the cell afresh and computes the sum from it.
C13_FailureMeansInterference ==
    [][(variant \in Bitwise) =>
          \A t \in Callers :
              /\ (pc[t] = "Add:load" /\ pc'[t] # pc[t]) =>
                    /\ pc'[t] = "Add:cas" /\ u64' = u64
                    /\ loc'[t].oldBits = u64
                    /\ loc'[t].newValue = FAdd[Float64frombits(u64), cur[t].arg]
                    /\ loc'[t].newBits = Float64bits(loc'[t].newValue)
              /\ (pc[t] = "Add:cas" /\ pc'[t] = pc[t] /\ u64 = loc[t].oldBits
                  /\ u64' # loc'[t].oldBits) =>
                    \E s \in Callers \ {t} : WritesCell(s)
              /\ CasFails(t) =>
                    /\ u64 # loc[t].oldBits /\ u64' = u64
                    /\ cur'[t] = cur[t] /\ hist' = hist
              /\ (pc[t] = "Add:cas" /\ pc'[t] # pc[t] /\ ~CasFails(t)) =>
                    u64 = loc[t].oldBits /\ u64' = loc[t].newBits]_vars

\* An Add whose compare-and-swap lost to a completed Store is back at its load.
C13_Witness ==
    /\ variant = "cas"
    /\ \E t \in Callers :
          /\ cur[t].name = "Add" /\ pc[t] = "Add:load"
          /\ loc[t] # NoLoc /\ loc[t].oldBits # u64
    /\ \E i \in 1..Len(hist) : hist[i].name = "Store"

\* C14: when only thread 1 writes to a bitwise instance, the cell still holds
\* oldBits whenever its Add is about to compare-and-swap, every
\* compare-and-swap it performs succeeds, and the Add returns in that step:
\* one load and one compare-and-swap per call.
C14_SingleUpdaterNeverRetries ==
    /\ [](pc[1] = "Add:cas" => u64 = loc[1].oldBits)
    /\ [][/\ ~CasFails(1)
          /\ (pc[1] = "Add:load" /\ pc'[1] # pc[1]) => pc'[1] = "Add:cas"
          /\ (pc[1] = "Add:cas" /\ pc'[1] # pc[1]) =>
                pc'[1] = "idle" /\ cur'[1] = NoCall /\ u64' = loc[1].newBits]_vars

\* The updater, its first call made, is about to compare-and-swap on a NaN
\* while a loader is inside Load.
C14_Witness ==
    /\ scn = "solo" /\ pc[1] = "Add:cas" /\ left[1] < SeqCalls - 1
    /\ IsNaN(Stored) /\ loc[1].oldBits = u64
    /\ \E t \in SoloThreads : pc[t] = "Load:atomic" /\ left[t] = 0

\* The completed call of the pair that is (is not) the Add.
PairAddCall == hist[CHOOSE i \in 1..2 : hist[i].name = "Add"]
PairWriteCall == hist[CHOOSE i \in 1..2 : hist[i].name # "Add"]

\* C15: after one Add(d) and one Store(v) or Swap(v) on an instance holding
\* x, in whatever order their steps ran, the stored value is v or v+d and the
\* Add returned x+d or v+d; the stored value is x+d only where that is v or
\* v+d.  (The Add returned x+d with v stored, or v+d with v+d stored.)
C15_NoStaleOverwrite ==
    (NoPending /\ Len(hist) = 2) =>
        LET x == initial
            d == PairAddCall.arg
            v == PairWriteCall.arg
        IN  /\ Stored \in {v, FAdd[v, d]}
            /\ PairAddCall.ret \in {FAdd[x, d], FAdd[v, d]}
            /\ Stored = FAdd[x, d] => FAdd[x, d] \in {v, FAdd[v, d]}
            /\ \/ PairAddCall.ret = FAdd[x, d] /\ Stored = v
               \/ PairAddCall.ret = FAdd[v, d] /\ Stored = FAdd[v, d]

\* The Add and a Store were invoked together, the Store returned first and
\* the Add returned v+d, which is neither x+d nor v.
C15_Witness ==
    /\ variant = "cas2" /\ NoPending /\ Len(hist) = 2
    /\ hist[1].name = "Store" /\ hist[2].name = "Add" /\ hist[2].pre = 0
    /\ hist[2].ret = FAdd[hist[1].arg, hist[2].arg]
    /\ hist[2].ret # FAdd[initial, hist[2].arg] /\ hist[2].ret # hist[1].arg
    /\ Stored = hist[2].ret

\* C16: in the bitwise variants a thread inside Load, Store, Swap or Add can
\* always take its next step, wherever the other threads stand (each of them
\* may be stopped for good at any point of its own call).
C16_NonBlocking ==
    (variant \in Bitwise) =>
        \A t \in DOMAIN pc : cur[t].name # "none" => ENABLED BitwiseStep(t)

\* Two calls in progress at once: an Add between its load and its
\* compare-and-swap, a Store before its atomic step.
C16_Witness ==
    /\ scn = "free" /\ variant = "cas"
    /\ \E t, s \in FreeCallers :
          /\ pc[t] = "Add:cas" /\ pc[s] = "Store:atomic"
          /\ ENABLED BitwiseStep(t) /\ ENABLED BitwiseStep(s)

\* The threads whose pending compare-and-swap is bound to fail as things stand.
Doomed == {t \in DOMAIN pc : pc[t] = "Add:cas" /\ loc[t].oldBits # u64}

\* C17: every failed compare-and-swap, and every one bound to fail, is paid
\* for by a successful write that spoiled the attempts of at most the
\* WorkThreads - 1 other threads: the failures never exceed (K-1) times the
\* successful writes, nor (K-1)*K*C for K threads making C calls each.
C17_BoundedWaste ==
    /\ work.fails + Cardinality(Doomed) <= (WorkThreads - 1) * work.writes
    /\ work.writes <= WorkThreads * WorkCalls
    /\ work.fails <= (WorkThreads - 1) * WorkThreads * WorkCalls

\* Every write so far has cost the other threads as many failures as it can.
C17_Witness ==
    /\ variant = "cas2" /\ work.writes >= 2
    /\ work.fails = (WorkThreads - 1) * work.writes

\* So far every call has been an Add(1) or a Load, on an instance created
\* with 0.
AddsOnly ==
    /\ initial = FZero(0)
    /\ \A i \in 1..Len(hist) : hist[i].name \in {"Add", "Load"}
    /\ \A t \in DOMAIN cur : cur[t].name \in {"none", "Add", "Load"}
AddsInvoked ==
    Cardinality({i \in 1..Len(hist) : hist[i].name = "Add"})
        + Cardinality({t \in DOMAIN cur : cur[t].name = "Add"})

\* C18: while the only writers are Add(1) calls, the stored value never
\* decreases in a step, it lies between 0 and the number of Add calls invoked
\* so far, and of two Loads, the first returned before the second was
\* invoked (two Loads of one thread are such), the second returns no less.
C18_MonotonicObservation ==
    /\ [][AddsOnly => FLe(Stored, StoredNext)]_vars
    /\ [](AddsOnly => FLe(FZero(0), Stored) /\ FLe(Stored, FromInt(AddsInvoked)))
    /\ [](AddsOnly =>
            \A i, j \in 1..Len(hist) :
                (hist[i].name = "Load" /\ hist[j].name = "Load" /\ i <= hist[j].pre)
                    => FLe(hist[i].ret, hist[j].ret))

\* A Load returned 0, an Add ran, a Load invoked after the first returned 1.
C18_Witness ==
    /\ variant = "mutex" /\ AddsOnly /\ NoPending /\ Len(hist) = 3
    /\ hist[1].name = "Load" /\ hist[1].ret = FZero(0)
    /\ hist[2].name = "Add" /\ hist[2].pre = 0
    /\ hist[3].name = "Load" /\ hist[3].pre = 1 /\ hist[3].ret = One

\* C19: every step of the for-loop Add of atomicFloatCAS is a step of the
\* goto Add of atomicFloatCAS2 and the other way round: from equal states the
\* two make the same moves, the load, then the compare-and-swap, back to the
\* load on failure, out with the sum on success.  (The two variants start
\* equal and take equal steps, so what one can reach, store or return, the
\* other can.)
C19_SameStateMachine ==
    [][\A t \in DOMAIN pc :
          /\ ForLoad(t) <=> GotoLoad(t)
          /\ ForCompareAndSwap(t) <=> GotoCompareAndSwap(t)
          /\ (variant \in Bitwise /\ cur[t].name = "Add" /\ pc'[t] # pc[t]) =>
                \/ pc[t] = "Add:load" /\ pc'[t] = "Add:cas"
                \/ pc[t] = "Add:cas" /\ pc'[t] = "Add:load" /\ u64 # loc[t].oldBits
                \/ pc[t] = "Add:cas" /\ pc'[t] = "idle" /\ u64 = loc[t].oldBits]_vars

\* In atomicFloatCAS2 an Add is back at its label after a failed
\* compare-and-swap, two calls of other threads having returned meanwhile.
C19_Witness ==
    /\ variant = "cas2" /\ Len(hist) = 2
    /\ \E t \in Callers :
          /\ cur[t].name = "Add" /\ cur[t].pre = 0 /\ pc[t] = "Add:load"
          /\ loc[t] # NoLoc /\ loc[t].oldBits # u64

====
